---------------------------- MODULE Spec2Model ----------------------------
(***************************************************************************)
(* Pair trading with the Johansen test: the notebook                       *)
(* 03_pair_trading_johansen.ipynb as a state machine.  One action per      *)
(* statement that changes the shared table df or a notebook variable.      *)
(*                                                                         *)
(* Numbers.  Prices are held in units of 1/BetaDen, so that                *)
(* S2 = beta_true * S1 + eps2 is exact on integers.  Thresholds are held   *)
(* in tenths (1.0 is 10).  A z-score is (spread - mean) / std with std a   *)
(* square root; it is held exactly as a sign and the quotient num/den of   *)
(* its square, which is all the comparisons of the signal cell need.       *)
(* A float column that can hold not-a-number (spread_diff, pnl, cum_pnl)   *)
(* holds records [nan, val].  Arithmetic is exact: rounding is not         *)
(* modelled.                                                               *)
(***************************************************************************)
EXTENDS Integers, Sequences, FiniteSets, TLC

VARIABLES pc, n, df, evec, entry_z, exit_z, pos, i

vars == <<pc, n, df, evec, entry_z, exit_z, pos, i>>

-----------------------------------------------------------------------------
(* Bounds of the model *)

\* longest series the generator cell produces
MaxN == 4
\* longest z-score series handed to the signal cell on its own
MaxZLen == 5

(* Samples of the two normal sources (scale 1.0 and scale 2.0), in units of 1.0 *)
Eps1Vals == {-1, 1}
Eps2Vals == {-2, 0, 2}

(* Vectors the Johansen routine may return: the true relation (beta, -1) in
   either sign, a near relation, one instrument alone, and the null vector *)
EvecVals == {<<4, -5>>, <<-4, 5>>, <<1, -1>>, <<1, 0>>, <<0, 0>>}

(* z-scores handed to the signal cell on its own, in tenths *)
ZTenths == {-15, -2, 0, 1, 5, 15}

-----------------------------------------------------------------------------
(* Program constants *)

S1Offset == 100
BetaNum == 4
BetaDen == 5
EntryDefault == 10
ExitDefault == 0

(* (entry_z, exit_z) in tenths: the notebook's pair, an exit inside the
   entry band, and an exit outside it *)
ThresholdPairs == {<<EntryDefault, ExitDefault>>, <<10, 5>>, <<5, 10>>}

-----------------------------------------------------------------------------
(* Floats with not-a-number *)

NaN == [nan |-> TRUE, val |-> 0]
Num(x) == [nan |-> FALSE, val |-> x]

FMul(a, b) == IF a.nan \/ b.nan THEN NaN ELSE Num(a.val * b.val)

Sign(x) == IF x < 0 THEN -1 ELSE IF x > 0 THEN 1 ELSE 0

(* z-scores: sgn * sqrt(num / den); den = 0 with num > 0 is an infinity *)
ZNaN == [nan |-> TRUE, sgn |-> 0, num |-> 0, den |-> 1]
ZOfTenths(k) == [nan |-> FALSE, sgn |-> Sign(k), num |-> k * k, den |-> 100]

(* the quotient with a fallback of 0 for 0/0 *)
ZQuotZeroFallback(d, dn, vn, vd) ==
    IF d = 0 /\ vn = 0 THEN [nan |-> FALSE, sgn |-> 0, num |-> 0, den |-> 1]
    ELSE [nan |-> FALSE, sgn |-> Sign(d), num |-> d * d * vd, den |-> dn * dn * vn]

(* (d / dn) / sqrt(vn / vd), for dn > 0, vn >= 0, vd > 0: 0/0 is not-a-number *)
ZQuot(d, dn, vn, vd) ==
    IF d = 0 /\ vn = 0 THEN ZNaN
    ELSE [nan |-> FALSE, sgn |-> Sign(d), num |-> d * d * vd, den |-> dn * dn * vn]

(* abs(z) *)
ZAbs(z) == IF z.nan THEN z ELSE [z EXCEPT !.sgn = IF z.sgn = 0 THEN 0 ELSE 1]

(* z < T/10; every comparison with not-a-number is false *)
ZLess(z, T) ==
    IF z.nan THEN FALSE
    ELSE IF z.sgn < 0 THEN (T >= 0 \/ z.num * 100 > T * T * z.den)
    ELSE IF z.sgn = 0 THEN 0 < T
    ELSE (T > 0 /\ z.num * 100 < T * T * z.den)

(* z > T/10 *)
ZGreater(z, T) ==
    IF z.nan THEN FALSE
    ELSE IF z.sgn > 0 THEN (T <= 0 \/ z.num * 100 > T * T * z.den)
    ELSE IF z.sgn = 0 THEN 0 > T
    ELSE (T < 0 /\ z.num * 100 < T * T * z.den)

-----------------------------------------------------------------------------
(* The table *)

HasCol(c) == c \in DOMAIN df

SetCol(d, c, v) == [k \in DOMAIN d \cup {c} |-> IF k = c THEN v ELSE d[k]]

RECURSIVE SeqSum(_, _)
SeqSum(s, t) == IF t = 0 THEN 0 ELSE s[t] + SeqSum(s, t - 1)

RECURSIVE SeqSumSq(_, _)
SeqSumSq(s, t) == IF t = 0 THEN 0 ELSE s[t] * s[t] + SeqSumSq(s, t - 1)


-----------------------------------------------------------------------------
(* Cell 1f4711f4: the two price series *)

(* S1 = 100 + np.cumsum(eps1), in units of 1/BetaDen *)
GenS1(eps1) == [t \in 1..Len(eps1) |-> BetaDen * (S1Offset + SeqSum(eps1, t))]

(* S2 = beta_true * S1 + eps2, in units of 1/BetaDen *)
GenS2(s1, eps2) == [t \in 1..Len(s1) |-> (BetaNum * s1[t]) \div BetaDen + BetaDen * eps2[t]]

(* Cell 82f03c31: spread and z-score *)

(* evec[0] * df['S1'] + evec[1] * df['S2'] *)
Spread(v, s1, s2) == [t \in 1..Len(s1) |-> v[1] * s1[t] + v[2] * s2[t]]

(* len * (spread[t] - mean) *)
Dev(s, t) == Len(s) * s[t] - SeqSum(s, Len(s))

(* len * (len - 1) * std^2, std the sample deviation with the N-1 denominator *)
VarNum(s) == Len(s) * SeqSumSq(s, Len(s)) - SeqSum(s, Len(s)) * SeqSum(s, Len(s))

(* (df['spread'] - df['spread'].mean()) / df['spread'].std(); std() of fewer
   than two values is not-a-number *)
Zscore(s) ==
    [t \in 1..Len(s) |->
        IF Len(s) < 2 THEN ZNaN
        ELSE ZQuot(Dev(s, t), Len(s), VarNum(s), Len(s) * (Len(s) - 1))]

(* Cell 559ecd9d: signals *)

(* the long signal without the minus sign: z < entry_z *)
LongSignalNoNeg(z, entry) == IF ZLess(z, entry) THEN 1 ELSE 0

(* (df['zscore'] < -entry_z).astype(int) *)
LongSignal(z, entry) == IF ZLess(z, -entry) THEN 1 ELSE 0

(* (df['zscore'] > entry_z).astype(int) *)
ShortSignal(z, entry) == IF ZGreater(z, entry) THEN 1 ELSE 0

(* the exit test with <= for <: abs(z) <= exit_z *)
ExitTestLeq(z, exitz) == ~z.nan /\ ~ZGreater(ZAbs(z), exitz)

(* the exit test without abs: z < exit_z *)
ExitTestNoAbs(z, exitz) == ZLess(z, exitz)

(* abs(df['zscore'].iloc[i]) < exit_z *)
ExitTest(z, exitz) == ZLess(ZAbs(z), exitz)

(* the loop body with the entry signals read whatever pos is *)
StepPosFlip(p, ls, ss, z, exitz) ==
    IF ls # 0 THEN 1
    ELSE IF ss # 0 THEN -1
    ELSE IF p # 0 /\ ExitTest(z, exitz) THEN 0
    ELSE p

(* the body of the for loop, before the write: the new value of pos *)
StepPos(p, ls, ss, z, exitz) ==
    IF p = 0 THEN (IF ls # 0 THEN 1 ELSE IF ss # 0 THEN -1 ELSE p)
    ELSE IF p = 1 /\ ExitTest(z, exitz) THEN 0
    ELSE IF p = -1 /\ ExitTest(z, exitz) THEN 0
    ELSE p

(* the write as a write of the whole column: df['position'] = pos *)
WriteAll(col, k, p) == [t \in DOMAIN col |-> p]

(* df.at[df.index[i], 'position'] = pos *)
WritePosition(col, k, p) == [col EXCEPT ![k + 1] = p]

(* Cell 4af660d4: profit and loss *)

(* Series.diff(): not-a-number first, then the difference to the row before *)
Diff(s) == [t \in 1..Len(s) |-> IF t = 1 THEN NaN ELSE Num(s[t] - s[t - 1])]

(* the shift left out: the row itself *)
ShiftNone(s) == [t \in 1..Len(s) |-> Num(s[t])]

(* Series.shift(1): not-a-number first, then the row before *)
Shift(s) == [t \in 1..Len(s) |-> IF t = 1 THEN NaN ELSE Num(s[t - 1])]

(* the product with its undefined rows filled with 0 *)
PnlFilled(position, spread_diff) ==
    [t \in 1..Len(position) |->
        IF FMul(Shift(position)[t], spread_diff[t]).nan THEN Num(0)
        ELSE FMul(Shift(position)[t], spread_diff[t])]

(* the product with the position factor left out *)
PnlNoPosition(position, spread_diff) == spread_diff

(* df['position'].shift(1) * df['spread_diff'] *)
Pnl(position, spread_diff) ==
    [t \in 1..Len(position) |-> FMul(Shift(position)[t], spread_diff[t])]

(* the sum of the values of s[1..t] that are numbers *)
RECURSIVE SumSkipNa(_, _)
SumSkipNa(s, t) ==
    IF t = 0 THEN 0
    ELSE (IF s[t].nan THEN 0 ELSE s[t].val) + SumSkipNa(s, t - 1)

(* a running sum that does not skip not-a-number (numpy's cumsum): every row
   from the first undefined one on is undefined *)
CumsumNoSkip(s) ==
    [t \in 1..Len(s) |->
        IF \E u \in 1..t : s[u].nan THEN NaN ELSE Num(SumSkipNa(s, t))]

(* Series.cumsum(): skips not-a-number in the running sum and leaves it in the row *)
Cumsum(s) == [t \in 1..Len(s) |-> IF s[t].nan THEN NaN ELSE Num(SumSkipNa(s, t))]

(* Series.fillna(0) *)
Fillna0(s) == [t \in 1..Len(s) |-> IF s[t].nan THEN Num(0) ELSE s[t]]

-----------------------------------------------------------------------------
(* The cells, in notebook order *)

(* n = 500; eps1, eps2 drawn; S1, S2; df = pd.DataFrame({'S1': S1, 'S2': S2}) *)
Generate ==
    /\ pc = "generate"
    /\ \E m \in 1..MaxN :
         \E eps1 \in [1..m -> Eps1Vals], eps2 \in [1..m -> Eps2Vals] :
            /\ n' = m
            /\ df' = SetCol(SetCol(df, "S1", GenS1(eps1)), "S2", GenS2(GenS1(eps1), eps2))
    /\ pc' = "johansen"
    /\ UNCHANGED <<evec, entry_z, exit_z, pos, i>>

(* jres = coint_johansen(...); evec = jres.evec[:, 0] *)
Johansen ==
    /\ pc = "johansen"
    /\ \E v \in EvecVals : evec' = v
    /\ pc' = "spread"
    /\ UNCHANGED <<n, df, entry_z, exit_z, pos, i>>

(* df['spread'] = evec[0] * df['S1'] + evec[1] * df['S2'] *)
ComputeSpread ==
    /\ pc = "spread"
    /\ df' = SetCol(df, "spread", Spread(evec, df["S1"], df["S2"]))
    /\ pc' = "zscore"
    /\ UNCHANGED <<n, evec, entry_z, exit_z, pos, i>>

(* df['zscore'] = (df['spread'] - df['spread'].mean()) / df['spread'].std() *)
ComputeZscore ==
    /\ pc = "zscore"
    /\ df' = SetCol(df, "zscore", Zscore(df["spread"]))
    /\ pc' = "thresholds"
    /\ UNCHANGED <<n, evec, entry_z, exit_z, pos, i>>

(* entry_z, exit_z = 1.0, 0.0 *)
SetThresholds ==
    /\ pc = "thresholds"
    /\ \E p \in ThresholdPairs : entry_z' = p[1] /\ exit_z' = p[2]
    /\ pc' = "signals"
    /\ UNCHANGED <<n, df, evec, pos, i>>

(* df['long_spread'] = ...; df['short_spread'] = ... *)
ComputeSignals ==
    /\ pc = "signals"
    /\ df' = SetCol(SetCol(df, "long_spread",
                           [t \in 1..n |-> LongSignal(df["zscore"][t], entry_z)]),
                    "short_spread",
                    [t \in 1..n |-> ShortSignal(df["zscore"][t], entry_z)])
    /\ pc' = "position"
    /\ UNCHANGED <<n, evec, entry_z, exit_z, pos, i>>

(* df['position'] = 0; pos = 0; the loop starts at i = 0 *)
InitPosition ==
    /\ pc = "position"
    /\ df' = SetCol(df, "position", [t \in 1..n |-> 0])
    /\ pos' = 0
    /\ i' = 0
    /\ pc' = "loop"
    /\ UNCHANGED <<n, evec, entry_z, exit_z>>

(* one iteration of for i in range(len(df)) *)
LoopStep ==
    /\ pc = "loop"
    /\ i < n
    /\ pos' = StepPos(pos, df["long_spread"][i + 1], df["short_spread"][i + 1],
                      df["zscore"][i + 1], exit_z)
    /\ df' = [df EXCEPT !["position"] = WritePosition(df["position"], i, pos')]
    /\ i' = i + 1
    /\ pc' = IF i + 1 < n THEN "loop" ELSE "spread_diff"
    /\ UNCHANGED <<n, evec, entry_z, exit_z>>

(* df['spread_diff'] = df['spread'].diff() *)
ComputeSpreadDiff ==
    /\ pc = "spread_diff"
    /\ df' = SetCol(df, "spread_diff", Diff(df["spread"]))
    /\ pc' = "pnl"
    /\ UNCHANGED <<n, evec, entry_z, exit_z, pos, i>>

(* df['pnl'] = df['position'].shift(1) * df['spread_diff'] *)
ComputePnl ==
    /\ pc = "pnl"
    /\ df' = SetCol(df, "pnl", Pnl(df["position"], df["spread_diff"]))
    /\ pc' = "cum_pnl"
    /\ UNCHANGED <<n, evec, entry_z, exit_z, pos, i>>

(* df['cum_pnl'] = df['pnl'].cumsum().fillna(0) *)
ComputeCumPnl ==
    /\ pc = "cum_pnl"
    /\ df' = SetCol(df, "cum_pnl", Fillna0(Cumsum(df["pnl"])))
    /\ pc' = "done"
    /\ UNCHANGED <<n, evec, entry_z, exit_z, pos, i>>

-----------------------------------------------------------------------------
(* The notebook, run from the top *)

Init ==
    /\ pc = "generate"
    /\ n = 0
    /\ df = <<>>
    /\ evec = <<0, 0>>
    /\ entry_z = 0
    /\ exit_z = 0
    /\ pos = 0
    /\ i = 0

Next ==
    \/ Generate
    \/ Johansen
    \/ ComputeSpread
    \/ ComputeZscore
    \/ SetThresholds
    \/ ComputeSignals
    \/ InitPosition
    \/ LoopStep
    \/ ComputeSpreadDiff
    \/ ComputePnl
    \/ ComputeCumPnl

Spec == Init /\ [][Next]_vars

(* The signal cell on its own, as a function of the z-score column and the
   thresholds: the z-score column is any series over the grid *)

ZGrid == {ZOfTenths(k) : k \in ZTenths} \cup {ZNaN}

InitSignal ==
    /\ pc = "thresholds"
    /\ \E m \in 1..MaxZLen :
         \E zs \in [1..m -> ZGrid] :
            /\ n = m
            /\ df = SetCol(<<>>, "zscore", zs)
    /\ evec = <<0, 0>>
    /\ entry_z = 0
    /\ exit_z = 0
    /\ pos = 0
    /\ i = 0

NextSignal ==
    \/ SetThresholds
    \/ ComputeSignals
    \/ InitPosition
    \/ LoopStep

SpecSignal == InitSignal /\ [][NextSignal]_vars

-----------------------------------------------------------------------------
(* Properties *)

(* rows the loop has written: 1..i once the position column exists *)
Written == IF HasCol("position") THEN 1..i ELSE {}

LoopOver == HasCol("position") /\ i = n

ZIsZero(z) == ~z.nan /\ z.sgn = 0

(* The documented transition rule of the signal generator, on the z-score itself *)
RuleStep(state, z, entry, exitz) ==
    IF state = 0
    THEN (IF ZLess(z, -entry) THEN 1 ELSE IF ZGreater(z, entry) THEN -1 ELSE 0)
    ELSE (IF ZLess(ZAbs(z), exitz) THEN 0 ELSE state)

(* the fold of the rule from FLAT over zs[1..j], as the series of the states
   after each row *)
RECURSIVE RuleScan(_, _, _, _)
RuleScan(zs, j, entry, exitz) ==
    IF j = 0 THEN <<>>
    ELSE LET before == RuleScan(zs, j - 1, entry, exitz)
         IN  Append(before,
                    RuleStep(IF j = 1 THEN 0 ELSE before[j - 1], zs[j], entry, exitz))

(* C1: every row the loop has written holds the fold of the documented rule
   from FLAT over the z-scores up to that row, the rows not yet written hold
   0, and pos is the fold over the rows written so far. *)
C1_PositionIsFoldOfRule ==
    HasCol("position") =>
        LET fold == RuleScan(df["zscore"], i, entry_z, exit_z)
        IN  /\ \A j \in 1..n : df["position"][j] = IF j <= i THEN fold[j] ELSE 0
            /\ pos = IF i = 0 THEN 0 ELSE fold[i]

(* a finished run that went long, exited, and went short *)
C1_Witness ==
    /\ LoopOver
    /\ \E j \in 1..n, k \in 1..n, l \in 1..n :
          /\ j < k /\ k < l
          /\ df["position"][j] = 1
          /\ df["position"][k] = 0
          /\ df["position"][l] = -1

(* C2: between two written rows holding positions of opposite sign there is
   a row holding 0; in particular no two successive rows hold +1 and -1. *)
C2_NoDirectFlip ==
    \A j \in Written, k \in Written :
        (j < k /\ df["position"][j] * df["position"][k] = -1) =>
            \E m \in (j + 1)..(k - 1) : df["position"][m] = 0

(* a finished run with the exit threshold above the entry threshold that was
   short, flat one row later, and long one row after that *)
C2_Witness ==
    /\ LoopOver
    /\ exit_z > entry_z
    /\ \E j \in 1..n :
          /\ j + 2 <= n
          /\ df["position"][j] = -1
          /\ df["position"][j + 1] = 0
          /\ df["position"][j + 2] = 1

(* C3: pnl[t] is the position of the row before times the spread's move
   into row t, for every row after the first. *)
C3_PnlUsesLaggedPosition ==
    HasCol("pnl") =>
        \A t \in 2..n :
            df["pnl"][t] =
                Num(df["position"][t - 1] * (df["spread"][t] - df["spread"][t - 1]))

(* a position entered at row t, while the spread moved into row t: nothing
   in pnl[t], something in pnl[t+1] *)
C3_Witness ==
    /\ HasCol("pnl")
    /\ \E t \in 2..(n - 1) :
          /\ df["position"][t - 1] = 0
          /\ df["position"][t] # 0
          /\ df["spread"][t] # df["spread"][t - 1]
          /\ df["pnl"][t] = Num(0)
          /\ df["pnl"][t + 1] # Num(0)

(* C4, as stated: the first element of the P&L series is the number 0. *)
C4_FirstPnlIsZero ==
    HasCol("pnl") => df["pnl"][1] = Num(0)

(* C4, amended: the first element of the P&L series is not-a-number, and
   the first element of the cumulative series is the number 0. *)
C4_FirstPnlIsNaNAndCumIsZero ==
    /\ HasCol("pnl") => df["pnl"][1] = NaN
    /\ HasCol("cum_pnl") => df["cum_pnl"][1] = Num(0)

(* a finished run of at least two rows that made or lost something *)
C4_Witness ==
    /\ pc = "done"
    /\ df["pnl"][1].nan
    /\ \E t \in 2..n : df["pnl"][t] # Num(0)

(* C5: cum_pnl starts at 0, each later row adds that row's pnl to the row
   before, and the last row is the sum of the P&L series (its undefined
   first element counting for nothing). *)
C5_CumPnlIsRunningSum ==
    HasCol("cum_pnl") =>
        /\ df["cum_pnl"][1] = Num(0)
        /\ \A t \in 2..n :
              /\ ~df["pnl"][t].nan
              /\ df["cum_pnl"][t] = Num(df["cum_pnl"][t - 1].val + df["pnl"][t].val)
        /\ df["cum_pnl"][n] = Num(SumSkipNa(df["pnl"], n))

(* a finished run where two rows made or lost something *)
C5_Witness ==
    /\ pc = "done"
    /\ \E t \in 2..n, u \in 2..n :
          /\ t < u
          /\ df["pnl"][t] # Num(0)
          /\ df["pnl"][u] # Num(0)
          /\ df["cum_pnl"][u] # df["pnl"][u]

(* C6: if every row of the position column is 0 then every row of cum_pnl
   is 0. *)
C6_FlatMeansNoPnl ==
    (HasCol("cum_pnl") /\ \A t \in 1..n : df["position"][t] = 0) =>
        \A t \in 1..n : df["cum_pnl"][t] = Num(0)

(* a finished run that stayed flat while the spread moved *)
C6_Witness ==
    /\ pc = "done"
    /\ \A t \in 1..n : df["position"][t] = 0
    /\ \E t \in 2..n : df["spread"][t] # df["spread"][t - 1]

(* at least two rows, all holding the same spread: the deviation is zero *)
SpreadIsConstant ==
    /\ HasCol("spread")
    /\ n >= 2
    /\ \A t \in 1..n : df["spread"][t] = df["spread"][1]

(* C7: with a zero-deviation spread every z-score is not-a-number, no entry
   signal is raised and every position is 0. *)
C7_DegenerateSpreadStaysFlat ==
    SpreadIsConstant =>
        /\ HasCol("zscore") => \A t \in 1..n : df["zscore"][t].nan
        /\ HasCol("long_spread") => \A t \in 1..n : df["long_spread"][t] = 0
        /\ HasCol("short_spread") => \A t \in 1..n : df["short_spread"][t] = 0
        /\ HasCol("position") => \A t \in 1..n : df["position"][t] = 0
        /\ HasCol("position") => pos = 0

(* a finished run on a constant spread made of both instruments *)
C7_Witness ==
    /\ pc = "done"
    /\ SpreadIsConstant
    /\ evec[1] # 0
    /\ evec[2] # 0

(* C8: a step keeps every column the table has, changes none but position,
   and changes position only in a loop step and only in the row of that
   step. *)
C8_EarlierSeriesUnchanged ==
    [][/\ \A c \in DOMAIN df :
             /\ c \in DOMAIN df'
             /\ c # "position" => df'[c] = df[c]
       /\ HasCol("position") =>
             /\ \A j \in 1..n : j # i + 1 => df'["position"][j] = df["position"][j]
             /\ pc # "loop" => df'["position"] = df["position"]]_vars

(* a finished run whose loop wrote a row differing from an earlier row *)
C8_Witness ==
    /\ pc = "done"
    /\ \E j \in 1..n, k \in 1..n : j < k /\ df["position"][j] # df["position"][k]
    /\ \E t \in 1..n : ~df["zscore"][t].nan

(* C9, as stated: with the exit threshold at 0.0 a held position goes to 0
   in a loop step exactly when that step's z-score is 0. *)
C9_ExitExactlyAtZero ==
    [][(pc = "loop" /\ exit_z = ExitDefault /\ pos # 0) =>
          ((pos' = 0) <=> ZIsZero(df["zscore"][i + 1]))]_vars

(* C9, amended: with the exit threshold at 0.0 a held position goes to 0 in
   no loop step, whatever that step's z-score. *)
C9_ExitNeverFiresAtZeroThreshold ==
    [][(pc = "loop" /\ exit_z = ExitDefault /\ pos # 0) => pos' = pos]_vars

(* a held position, kept through a row whose z-score is 0 *)
C9_Witness ==
    /\ exit_z = ExitDefault
    /\ \E j \in Written :
          /\ j >= 2
          /\ df["position"][j - 1] # 0
          /\ ZIsZero(df["zscore"][j])
          /\ df["position"][j] = df["position"][j - 1]

ExampleZ == <<ZOfTenths(15), ZOfTenths(5), ZOfTenths(-15), ZOfTenths(-2), ZOfTenths(1)>>

(* C10: with entry 1.0 and exit 0.0 a written row that is not 0 is repeated
   in every later written row, and the z-scores 1.5, 0.5, -1.5, -0.2, 0.1
   give -1 in every row. *)
C10_EnteredPositionIsKept ==
    (HasCol("position") /\ entry_z = EntryDefault /\ exit_z = ExitDefault) =>
        /\ \A j \in Written, k \in Written :
              (j < k /\ df["position"][j] # 0) => df["position"][k] = df["position"][j]
        /\ (LoopOver /\ df["zscore"] = ExampleZ) => df["position"] = <<-1, -1, -1, -1, -1>>

(* the example run, finished *)
C10_Witness ==
    /\ LoopOver
    /\ entry_z = EntryDefault
    /\ exit_z = ExitDefault
    /\ df["zscore"] = ExampleZ
    /\ df["position"] = <<-1, -1, -1, -1, -1>>

=============================================================================
